---- MODULE Spec2Model ----
(***************************************************************************)
(* Model of src/item.rs: the Item / ShortLong description types, their     *)
(* derived ordering, the classification predicates, the width arithmetic   *)
(* and the two-mode Display rendering.                                     *)
(*                                                                         *)
(* Text is a sequence of one-character strings, so that lengths, prefixes  *)
(* and line breaks of rendered output are computed, not assumed.           *)
(* Option<T> is a sequence of length at most one: <<>> is None, <<v>> is   *)
(* Some(v).                                                                *)
(***************************************************************************)
EXTENDS Integers, Sequences, FiniteSets, TLC

VARIABLES
    item,       \* the Item an operation is applied to (self)
    item2,      \* the right-hand operand of a comparison (other)
    named,      \* the Named alias collection handed to ShortLong::from
    alternate,  \* Formatter::alternate(): TRUE for {:#}
    width,      \* Formatter::width(): Option<usize>
    env,        \* process environment: state of each variable name
    out,        \* what fmt has written to the Formatter, one chunk per write!
    status,     \* "ready" | "ok" | "panic" | "overflow"
    ret         \* results returned so far, by operation name

vars == <<item, item2, named, alternate, width, env, out, status, ret>>

(***************************************************************************)
(* Bounds of the input space.                                              *)
(***************************************************************************)
\* widths 0..MaxWidth are supplied to the formatter (besides no width)
MaxWidth == 14
\* a Named carries at most MaxAliases short and MaxAliases long aliases
MaxAliases == 3

None == <<>>
Some(v) == <<v>>
IsSome(o) == Len(o) = 1
Unwrap(o) == o[1]

Spaces(n) == [i \in 1..n |-> " "]

RECURSIVE Flat(_)
\* concatenation of the chunks written so far
Flat(chunks) ==
    IF chunks = <<>> THEN <<>> ELSE Head(chunks) \o Flat(Tail(chunks))

(***************************************************************************)
(* Input domains.                                                          *)
(***************************************************************************)
ShortChars == {"a", "b"}
LongNames == {<<"l">>, <<"l", "o">>}
Metavars == {<<"M">>, <<"F", "N">>}
CommandNames == {<<"c">>, <<"c", "d">>}
EnvNames == {<<"E">>}
HelpTexts ==
    { <<>>,
      <<"h">>,
      <<"a", "\n", "b">>,
      <<"a", "\n", "\n", "b">> }
OptHelp == {None} \cup {Some(h) : h \in HelpTexts}

\* unicode scalar value of the characters that occur in compared fields
Code(c) ==
    CASE c = "\n" -> 10
      [] c = "E" -> 69
      [] c = "F" -> 70
      [] c = "M" -> 77
      [] c = "N" -> 78
      [] c = "a" -> 97
      [] c = "b" -> 98
      [] c = "c" -> 99
      [] c = "d" -> 100
      [] c = "h" -> 104
      [] c = "l" -> 108
      [] c = "o" -> 111

ShortLongs ==
    {[tag |-> "Short", short |-> c] : c \in ShortChars}
    \cup {[tag |-> "Long", long |-> l] : l \in LongNames}
    \cup {[tag |-> "ShortLong", short |-> c, long |-> l] :
            c \in ShortChars, l \in LongNames}

Items ==
    {[tag |-> "Decor", help |-> h] : h \in OptHelp}
    \cup {[tag |-> "Positional", metavar |-> m, help |-> h] :
            m \in Metavars, h \in OptHelp}
    \cup {[tag |-> "Command", name |-> n, short |-> s, help |-> h] :
            n \in CommandNames,
            s \in {None} \cup {Some(c) : c \in ShortChars},
            h \in OptHelp}
    \cup {[tag |-> "Flag", name |-> n, help |-> h] :
            n \in ShortLongs, h \in OptHelp}
    \cup {[tag |-> "Argument", name |-> n, metavar |-> m, env |-> e, help |-> h] :
            n \in ShortLongs,
            m \in Metavars,
            e \in {None} \cup {Some(x) : x \in EnvNames},
            h \in OptHelp}

(***************************************************************************)
(* ItemKind and the accessors.                                             *)
(***************************************************************************)
kind(i) ==
    CASE i.tag = "Decor" -> "Decor"
      [] i.tag = "Positional" -> "Positional"
      [] i.tag = "Command" -> "Command"
      [] i.tag \in {"Flag", "Argument"} -> "Flag"

help(i) == i.help

(***************************************************************************)
(* Widths.                                                                 *)
(***************************************************************************)
ShortLong_full_width(n) ==
    CASE n.tag = "Short" -> 2
      [] n.tag \in {"Long", "ShortLong"} -> 6 + Len(n.long)

\* variant: a Command's short alias is left out of the width
Item_full_width_no_alias(i) ==
    CASE i.tag = "Decor" -> 0
      [] i.tag = "Flag" -> ShortLong_full_width(i.name)
      [] i.tag = "Argument" ->
            ShortLong_full_width(i.name) + Len(i.metavar) + 3
      [] i.tag = "Positional" -> Len(i.metavar) + 2
      [] i.tag = "Command" -> Len(i.name)

Item_full_width(i) ==
    CASE i.tag = "Decor" -> 0
      [] i.tag = "Flag" -> ShortLong_full_width(i.name)
      [] i.tag = "Argument" ->
            ShortLong_full_width(i.name) + Len(i.metavar) + 3
      [] i.tag = "Positional" -> Len(i.metavar) + 2
      [] i.tag = "Command" ->
            Len(i.name) + (IF IsSome(i.short) THEN 3 ELSE 0)

(***************************************************************************)
(* Classification predicates.                                              *)
(***************************************************************************)
is_command(i) ==
    CASE kind(i) = "Command" -> TRUE
      [] kind(i) \in {"Flag", "Decor", "Positional"} -> FALSE

\* variant: Decor is not grouped with the flags
is_flag_strict(i) ==
    CASE kind(i) = "Flag" -> TRUE
      [] kind(i) \in {"Command", "Decor", "Positional"} -> FALSE

is_flag(i) ==
    CASE kind(i) \in {"Flag", "Decor"} -> TRUE
      [] kind(i) \in {"Command", "Positional"} -> FALSE

is_positional(i) ==
    CASE kind(i) = "Positional" -> IsSome(help(i))
      [] kind(i) \in {"Flag", "Decor", "Command"} -> FALSE

(***************************************************************************)
(* Item operations: each call records its result under its name.           *)
(***************************************************************************)
Record(op, v) ==
    /\ status = "ready"
    /\ op \notin DOMAIN ret
    /\ ret' = ret @@ (op :> v)
    /\ UNCHANGED <<item, item2, named, alternate, width, env, out, status>>

CallKind == Record("kind", kind(item))
CallHelp == Record("help", help(item))
CallFullWidth == Record("full_width", Item_full_width(item))
CallIsCommand == Record("is_command", is_command(item))
CallIsFlag == Record("is_flag", is_flag(item))
CallIsPositional == Record("is_positional", is_positional(item))

NoRet == <<>>
NoEnv == [n \in EnvNames |-> [state |-> "unset"]]
NoNamed == [short |-> <<>>, long |-> <<>>]

InitItem ==
    /\ item \in Items
    /\ item2 = item
    /\ named = NoNamed
    /\ alternate = FALSE
    /\ width = None
    /\ env = NoEnv
    /\ out = <<>>
    /\ status = "ready"
    /\ ret = NoRet

NextItem ==
    \/ CallKind
    \/ CallHelp
    \/ CallFullWidth
    \/ CallIsCommand
    \/ CallIsFlag
    \/ CallIsPositional

SpecItem == InitItem /\ [][NextItem]_vars

(***************************************************************************)
(* ShortLong::from(&Named).                                                *)
(***************************************************************************)
RECURSIVE SeqsUpTo(_, _)
\* every sequence over S of length at most n
SeqsUpTo(S, n) ==
    IF n = 0 THEN {<<>>}
    ELSE LET shorter == SeqsUpTo(S, n - 1)
         IN shorter \cup {Append(q, x) : q \in shorter, x \in S}

Nameds ==
    [short : SeqsUpTo(ShortChars, MaxAliases),
     long : SeqsUpTo(LongNames, MaxAliases)]

\* variant: the last alias of each list is taken
ShortLong_from_last(n) ==
    CASE n.short = <<>> /\ n.long = <<>> -> [panic |-> TRUE]
      [] n.short = <<>> /\ n.long # <<>> ->
            [panic |-> FALSE,
             value |-> [tag |-> "Long", long |-> n.long[Len(n.long)]]]
      [] n.short # <<>> /\ n.long = <<>> ->
            [panic |-> FALSE,
             value |-> [tag |-> "Short", short |-> n.short[Len(n.short)]]]
      [] n.short # <<>> /\ n.long # <<>> ->
            [panic |-> FALSE,
             value |-> [tag |-> "ShortLong", short |-> n.short[Len(n.short)],
                        long |-> n.long[Len(n.long)]]]

\* the value returned, or the unreachable!() panic
ShortLong_from(n) ==
    CASE n.short = <<>> /\ n.long = <<>> -> [panic |-> TRUE]
      [] n.short = <<>> /\ n.long # <<>> ->
            [panic |-> FALSE, value |-> [tag |-> "Long", long |-> n.long[1]]]
      [] n.short # <<>> /\ n.long = <<>> ->
            [panic |-> FALSE, value |-> [tag |-> "Short", short |-> n.short[1]]]
      [] n.short # <<>> /\ n.long # <<>> ->
            [panic |-> FALSE,
             value |-> [tag |-> "ShortLong", short |-> n.short[1],
                        long |-> n.long[1]]]

CallFrom ==
    /\ status = "ready"
    /\ LET r == ShortLong_from(named)
       IN IF r.panic
          THEN status' = "panic" /\ ret' = ret
          ELSE status' = "ok" /\ ret' = ret @@ ("from" :> r.value)
    /\ UNCHANGED <<item, item2, named, alternate, width, env, out>>

InitNamed ==
    /\ named \in Nameds
    /\ item = [tag |-> "Decor", help |-> None]
    /\ item2 = item
    /\ alternate = FALSE
    /\ width = None
    /\ env = NoEnv
    /\ out = <<>>
    /\ status = "ready"
    /\ ret = NoRet

NextNamed == CallFrom

SpecNamed == InitNamed /\ [][NextNamed]_vars

(***************************************************************************)
(* Derived PartialOrd / Ord: variant index first, then the fields in       *)
(* declaration order.                                                      *)
(***************************************************************************)
CmpNat(a, b) ==
    IF a < b THEN "Less" ELSE IF a = b THEN "Equal" ELSE "Greater"

CmpChar(a, b) == CmpNat(Code(a), Code(b))

RECURSIVE CmpStr(_, _)
CmpStr(s, t) ==
    IF s = <<>> THEN (IF t = <<>> THEN "Equal" ELSE "Less")
    ELSE IF t = <<>> THEN "Greater"
    ELSE LET c == CmpChar(Head(s), Head(t))
         IN IF c # "Equal" THEN c ELSE CmpStr(Tail(s), Tail(t))

CmpOptStr(a, b) ==
    IF a = None THEN (IF b = None THEN "Equal" ELSE "Less")
    ELSE IF b = None THEN "Greater"
    ELSE CmpStr(Unwrap(a), Unwrap(b))

CmpOptChar(a, b) ==
    IF a = None THEN (IF b = None THEN "Equal" ELSE "Less")
    ELSE IF b = None THEN "Greater"
    ELSE CmpChar(Unwrap(a), Unwrap(b))

\* lexicographic combination of field comparisons
RECURSIVE Lex(_)
Lex(cs) ==
    IF cs = <<>> THEN "Equal"
    ELSE IF Head(cs) # "Equal" THEN Head(cs) ELSE Lex(Tail(cs))

ItemKindIx(k) ==
    CASE k = "Flag" -> 0
      [] k = "Command" -> 1
      [] k = "Decor" -> 2
      [] k = "Positional" -> 3

ItemKind_cmp(a, b) == CmpNat(ItemKindIx(a), ItemKindIx(b))

ShortLongIx(n) ==
    CASE n.tag = "Short" -> 0
      [] n.tag = "Long" -> 1
      [] n.tag = "ShortLong" -> 2

ShortLong_cmp(a, b) ==
    IF a.tag # b.tag THEN CmpNat(ShortLongIx(a), ShortLongIx(b))
    ELSE CASE a.tag = "Short" -> CmpChar(a.short, b.short)
           [] a.tag = "Long" -> CmpStr(a.long, b.long)
           [] a.tag = "ShortLong" ->
                Lex(<<CmpChar(a.short, b.short), CmpStr(a.long, b.long)>>)

\* variant: the variants are ranked as ItemKind ranks their kinds
ItemIx_by_kind(i) == ItemKindIx(kind(i))

ItemIx(i) ==
    CASE i.tag = "Decor" -> 0
      [] i.tag = "Positional" -> 1
      [] i.tag = "Command" -> 2
      [] i.tag = "Flag" -> 3
      [] i.tag = "Argument" -> 4

Item_cmp(a, b) ==
    IF a.tag # b.tag THEN CmpNat(ItemIx(a), ItemIx(b))
    ELSE CASE a.tag = "Decor" -> CmpOptStr(a.help, b.help)
           [] a.tag = "Positional" ->
                Lex(<<CmpStr(a.metavar, b.metavar), CmpOptStr(a.help, b.help)>>)
           [] a.tag = "Command" ->
                Lex(<<CmpStr(a.name, b.name), CmpOptChar(a.short, b.short),
                      CmpOptStr(a.help, b.help)>>)
           [] a.tag = "Flag" ->
                Lex(<<ShortLong_cmp(a.name, b.name), CmpOptStr(a.help, b.help)>>)
           [] a.tag = "Argument" ->
                Lex(<<ShortLong_cmp(a.name, b.name),
                      CmpStr(a.metavar, b.metavar),
                      CmpOptStr(a.env, b.env),
                      CmpOptStr(a.help, b.help)>>)

CallCmp ==
    /\ status = "ready"
    /\ "cmp" \notin DOMAIN ret
    /\ ret' = ret @@ ("cmp" :> Item_cmp(item, item2))
    /\ UNCHANGED <<item, item2, named, alternate, width, env, out, status>>

CallKinds ==
    /\ status = "ready"
    /\ "kinds" \notin DOMAIN ret
    /\ ret' = ret @@ ("kinds" :> ItemKind_cmp(kind(item), kind(item2)))
    /\ UNCHANGED <<item, item2, named, alternate, width, env, out, status>>

\* the operands of a comparison: every variant and every field varies
OrdItems == {i \in Items : i.help \in {None, Some(<<>>), Some(<<"h">>)}}

InitOrd ==
    /\ item \in OrdItems
    /\ item2 \in OrdItems
    /\ named = NoNamed
    /\ alternate = FALSE
    /\ width = None
    /\ env = NoEnv
    /\ out = <<>>
    /\ status = "ready"
    /\ ret = NoRet

NextOrd ==
    \/ CallCmp
    \/ CallKinds

SpecOrd == InitOrd /\ [][NextOrd]_vars

(***************************************************************************)
(* Display: {} is the compact form, {:#} the expanded form.                *)
(***************************************************************************)
\* variant: the expanded form of a long-only name is not indented
ShortLong_fmt_flush(n, alt) ==
    IF alt
    THEN CASE n.tag = "Short" -> <<"-", n.short>>
           [] n.tag = "Long" -> <<"-", "-">> \o n.long
           [] n.tag = "ShortLong" ->
                <<"-", n.short, ",", " ", "-", "-">> \o n.long
    ELSE CASE n.tag \in {"Short", "ShortLong"} -> <<"-", n.short>>
           [] n.tag = "Long" -> <<"-", "-">> \o n.long

ShortLong_fmt(n, alt) ==
    IF alt
    THEN CASE n.tag = "Short" -> <<"-", n.short>>
           [] n.tag = "Long" -> Spaces(4) \o <<"-", "-">> \o n.long
           [] n.tag = "ShortLong" ->
                <<"-", n.short, ",", " ", "-", "-">> \o n.long
    ELSE CASE n.tag \in {"Short", "ShortLong"} -> <<"-", n.short>>
           [] n.tag = "Long" -> <<"-", "-">> \o n.long

\* a - b on usize: with overflow checks a panic, without them the wrapped
\* value 2^BITS - short_by, which is never materialised as padding
usize_sub(a, b, checks) ==
    IF a >= b THEN [status |-> "ok", value |-> a - b]
    ELSE IF checks THEN [status |-> "panic"]
    ELSE [status |-> "overflow", short_by |-> b - a]

EnvTexts == {<<>>, <<"v">>, <<"a", "\"">>, <<"\\", "\n">>}
EnvStates ==
    {[state |-> "unset"], [state |-> "notunicode"]}
    \cup {[state |-> "set", value |-> v] : v \in EnvTexts}

\* std::env::var
env_var(e, name) ==
    CASE e[name].state = "set" -> [ok |-> TRUE, value |-> e[name].value]
      [] e[name].state = "unset" -> [ok |-> FALSE, err |-> "NotPresent"]
      [] e[name].state = "notunicode" -> [ok |-> FALSE, err |-> "NotUnicode"]

\* char::escape_debug as <str as Debug> applies it
escape_debug(c) ==
    CASE c = "\"" -> <<"\\", "\"">>
      [] c = "\\" -> <<"\\", "\\">>
      [] c = "\n" -> <<"\\", "n">>
      [] OTHER -> <<c>>

\* variant: {} between literal quotes, nothing escaped
str_quoted(v) == <<"\"">> \o v \o <<"\"">>

\* {:?} of a string
str_debug(v) ==
    <<"\"">> \o Flat([k \in 1..Len(v) |-> escape_debug(v[k])]) \o <<"\"">>

\* the val of the environment annotation
env_val(e, name) ==
    LET r == env_var(e, name)
    IN  CASE r.ok -> <<" ", "=", " ">> \o str_debug(r.value)
          [] ~r.ok /\ r.err = "NotPresent" -> <<":", " ", "N", "/", "A">>
          [] ~r.ok /\ r.err = "NotUnicode" ->
                <<":", " ", "c", "u", "r", "r", "e", "n", "t", " ",
                  "v", "a", "l", "u", "e", " ", "i", "s", " ",
                  "n", "o", "t", " ", "u", "t", "f", "8">>

RECURSIVE split(_, _)
\* str::split(sep): the pieces between separators, at least one
split(s, sep) ==
    IF \E k \in 1..Len(s) : s[k] = sep
    THEN LET k == CHOOSE j \in 1..Len(s) :
                    s[j] = sep /\ \A m \in 1..(j - 1) : s[m] # sep
         IN  <<SubSeq(s, 1, k - 1)>> \o split(SubSeq(s, k + 1, Len(s)), sep)
    ELSE <<s>>

\* the first write! of the expanded form: indent and name
name_segment(i) ==
    CASE i.tag = "Flag" -> <<Spaces(4) \o ShortLong_fmt(i.name, TRUE)>>
      [] i.tag = "Argument" ->
            <<Spaces(4) \o ShortLong_fmt(i.name, TRUE) \o <<" ", "<">>
                \o i.metavar \o <<">">> >>
      [] i.tag = "Decor" -> IF IsSome(i.help) THEN <<Spaces(4)>> ELSE <<>>
      [] i.tag = "Positional" ->
            <<Spaces(4) \o <<"<">> \o i.metavar \o <<">">> >>
      [] i.tag = "Command" ->
            IF IsSome(i.short)
            THEN <<Spaces(4) \o i.name \o <<",", " ", Unwrap(i.short)>> >>
            ELSE <<Spaces(4) \o i.name>>

\* the second write! of an Argument: f.width().zip(*env)
env_annotation(i, w, e, checks) ==
    IF i.tag = "Argument" /\ IsSome(w) /\ IsSome(i.env)
    THEN LET sub == usize_sub(Unwrap(w), Item_full_width(i), checks)
             next_pad == 4 + Item_full_width(i)
         IN  IF sub.status = "ok"
             THEN [status |-> "ok",
                   chunks |->
                     <<Spaces(sub.value) \o <<" ", " ", "[", "e", "n", "v", ":">>
                         \o Unwrap(i.env) \o env_val(e, Unwrap(i.env))
                         \o <<"]", "\n">> \o Spaces(next_pad)>>]
             ELSE [status |-> sub.status, chunks |-> <<>>]
    ELSE [status |-> "ok", chunks |-> <<>>]

\* variant: continuation lines indented to the name column plus four
help_lines_short_indent(h, w, pad) ==
    LET lines == split(h, "\n")
    IN  [ix \in 1..Len(lines) |->
            IF ix = 1
            THEN Spaces(pad) \o <<" ", " ">> \o lines[ix]
            ELSE <<"\n">> \o Spaces(w) \o Spaces(4) \o lines[ix]]

\* one write! per line of the help
help_lines(h, w, pad) ==
    LET lines == split(h, "\n")
    IN  [ix \in 1..Len(lines) |->
            IF ix = 1
            THEN Spaces(pad) \o <<" ", " ">> \o lines[ix]
            ELSE <<"\n">> \o Spaces(w) \o Spaces(6) \o lines[ix]]

Item_fmt_alternate(i, w, e, checks) ==
    LET seg == name_segment(i)
        ann == env_annotation(i, w, e, checks)
    IN  IF ann.status # "ok" THEN [status |-> ann.status, chunks |-> seg]
        ELSE IF w = None
        THEN [status |-> "panic", chunks |-> seg \o ann.chunks]
        ELSE IF help(i) = None
        THEN [status |-> "ok", chunks |-> seg \o ann.chunks]
        ELSE LET sub == usize_sub(Unwrap(w), Item_full_width(i), checks)
             IN  IF sub.status # "ok"
                 THEN [status |-> sub.status, chunks |-> seg \o ann.chunks]
                 ELSE [status |-> "ok",
                       chunks |-> seg \o ann.chunks
                           \o help_lines(Unwrap(help(i)), Unwrap(w), sub.value)]

\* variant: the compact Argument keeps the angle brackets of the expanded form
Item_fmt_compact_bracketed(i) ==
    CASE i.tag = "Decor" -> <<>>
      [] i.tag = "Positional" -> << <<"<">> \o i.metavar \o <<">">> >>
      [] i.tag = "Command" ->
            << <<"C", "O", "M", "M", "A", "N", "D", " ", ".", ".", ".">> >>
      [] i.tag = "Flag" -> <<ShortLong_fmt(i.name, FALSE)>>
      [] i.tag = "Argument" ->
            <<ShortLong_fmt(i.name, FALSE) \o <<" ", "<">> \o i.metavar
                \o <<">">> >>

Item_fmt_compact(i) ==
    CASE i.tag = "Decor" -> <<>>
      [] i.tag = "Positional" -> << <<"<">> \o i.metavar \o <<">">> >>
      [] i.tag = "Command" ->
            << <<"C", "O", "M", "M", "A", "N", "D", " ", ".", ".", ".">> >>
      [] i.tag = "Flag" -> <<ShortLong_fmt(i.name, FALSE)>>
      [] i.tag = "Argument" ->
            <<ShortLong_fmt(i.name, FALSE) \o <<" ">> \o i.metavar>>

Item_fmt(i, alt, w, e, checks) ==
    IF alt THEN Item_fmt_alternate(i, w, e, checks)
    ELSE [status |-> "ok", chunks |-> Item_fmt_compact(i)]

\* <Item as Display>::fmt; the build decides whether overflow is checked
CallFmt ==
    /\ status = "ready"
    /\ \E checks \in BOOLEAN :
          LET r == Item_fmt(item, alternate, width, env, checks)
          IN  /\ status' = r.status
              /\ out' = r.chunks
    /\ UNCHANGED <<item, item2, named, alternate, width, env, ret>>

InitFmt ==
    /\ item \in Items
    /\ item2 = item
    /\ named = NoNamed
    /\ alternate \in BOOLEAN
    /\ width \in {None} \cup {Some(w) : w \in 0..MaxWidth}
    /\ env \in [EnvNames -> EnvStates]
    /\ out = <<>>
    /\ status = "ready"
    /\ ret = NoRet

NextFmt == CallFmt

SpecFmt == InitFmt /\ [][NextFmt]_vars

(***************************************************************************)
(* Properties.                                                             *)
(***************************************************************************)
Rendered == status # "ready"
Returned(op) == op \in DOMAIN ret
HasChar(t, c) == \E k \in 1..Len(t) : t[k] = c

\* an expanded render whose caller kept the width contract
WideEnough ==
    /\ Rendered
    /\ alternate
    /\ IsSome(width)
    /\ Unwrap(width) >= Item_full_width(item)

\* the Argument carries a bound environment-variable name
Annotated == item.tag = "Argument" /\ IsSome(item.env)

\* C1: expanded rendering with a supplied width below full_width() is
\* rejected (a panic) for every item, with or without help text or bound
\* environment name; it never ends as a successful render and never pads
\* by a wrapped amount.
C1_NarrowWidthRejected ==
    (/\ Rendered
     /\ alternate
     /\ IsSome(width)
     /\ Unwrap(width) < Item_full_width(item))
        => status = "panic"

\* C2: in expanded mode with width >= full_width(), every line of the help
\* starts at offset width + 6 of its physical output line: the first one
\* after the name segment, width - full_width() pad spaces and a two-space
\* gap (or, below an environment annotation, after width + 6 spaces), each
\* later one after exactly width + 6 spaces.
C2_HelpColumn ==
    (WideEnough /\ IsSome(item.help)) =>
        /\ status = "ok"
        /\ LET w == Unwrap(width)
               fw == Item_full_width(item)
               phys == split(Flat(out), "\n")
               hl == split(Unwrap(item.help), "\n")
               off == IF Annotated THEN 1 ELSE 0
           IN  /\ Len(phys) = Len(hl) + off
               /\ \A k \in 1..Len(hl) :
                     LET line == phys[k + off]
                     IN  /\ Len(line) = w + 6 + Len(hl[k])
                         /\ SubSeq(line, w + 7, Len(line)) = hl[k]
                         /\ IF k = 1 /\ off = 0
                            THEN /\ SubSeq(line, 1, 4 + fw) = out[1]
                                 /\ SubSeq(line, 5 + fw, w + 6)
                                        = Spaces((w - fw) + 2)
                            ELSE SubSeq(line, 1, w + 6) = Spaces(w + 6)

C2_Witness ==
    /\ status = "ok"
    /\ alternate
    /\ Annotated
    /\ item.help = Some(<<"a", "\n", "\n", "b">>)
    /\ width = Some(Item_full_width(item))
    /\ env[Unwrap(item.env)].state = "set"
    /\ HasChar(env[Unwrap(item.env)].value, "\n")

\* the annotation chunk around its value part: pad, "  [env:NAME", the
\* value part, "]", a line break and 4 + full_width() spaces
AnnotationFrame(chunk, val) ==
    chunk = Spaces(Unwrap(width) - Item_full_width(item))
                \o <<" ", " ", "[", "e", "n", "v", ":">>
                \o Unwrap(item.env) \o val \o <<"]", "\n">>
                \o Spaces(4 + Item_full_width(item))

\* what lies between "[env:NAME" and the closing "]" of the chunk
AnnotationVal(chunk) ==
    SubSeq(chunk,
           (Unwrap(width) - Item_full_width(item)) + 7 + Len(Unwrap(item.env)) + 1,
           Len(chunk) - (4 + Item_full_width(item)) - 2)

NotPresentText == <<":", " ", "N", "/", "A">>
NotUnicodeText ==
    <<":", " ", "c", "u", "r", "r", "e", "n", "t", " ", "v", "a", "l", "u", "e",
      " ", "i", "s", " ", "n", "o", "t", " ", "u", "t", "f", "8">>

\* no annotation: the name segment is followed by the help chunks only
NoAnnotation ==
    /\ ~HasChar(Flat(out), "[")
    /\ Len(out) = Len(name_segment(item))
                    + (IF IsSome(item.help)
                       THEN Len(split(Unwrap(item.help), "\n")) ELSE 0)

\* C3 as stated: the value of a set variable is shown verbatim between
\* double quotes.
C3_AnnotationVerbatim ==
    WideEnough =>
        /\ status = "ok"
        /\ IF Annotated
           THEN LET st == env[Unwrap(item.env)]
                    val == AnnotationVal(out[2])
                IN  /\ AnnotationFrame(out[2], val)
                    /\ st.state = "set" =>
                          val = <<" ", "=", " ", "\"">> \o st.value \o <<"\"">>
                    /\ st.state = "unset" => val = NotPresentText
                    /\ st.state = "notunicode" => val = NotUnicodeText
           ELSE NoAnnotation

RECURSIVE IsEscaped(_)
\* every quote, backslash and line break of t is written as a two-character
\* backslash escape
IsEscaped(t) ==
    IF t = <<>> THEN TRUE
    ELSE IF t[1] = "\\"
    THEN /\ Len(t) >= 2
         /\ t[2] \in {"\\", "\"", "n"}
         /\ IsEscaped(SubSeq(t, 3, Len(t)))
    ELSE t[1] \notin {"\"", "\n"} /\ IsEscaped(Tail(t))

RECURSIVE Unescape(_)
Unescape(t) ==
    IF t = <<>> THEN <<>>
    ELSE IF t[1] = "\\" /\ Len(t) >= 2
    THEN <<IF t[2] = "n" THEN "\n" ELSE t[2]>> \o Unescape(SubSeq(t, 3, Len(t)))
    ELSE <<t[1]>> \o Unescape(Tail(t))

\* C3 (amended): an Argument with a bound name E, rendered expanded with
\* width >= full_width(), gets exactly one annotation between the name
\* segment and the help: ` = ` and the value in quoted, backslash-escaped
\* form (verbatim between the quotes when it has no quote, backslash or
\* line break) when E is set to text, `: N/A` when unset, `: current value
\* is not utf8` when not text; rendering succeeds in all three states; other
\* items get no annotation.
C3_AnnotationDebugQuoted ==
    WideEnough =>
        /\ status = "ok"
        /\ IF Annotated
           THEN LET st == env[Unwrap(item.env)]
                    val == AnnotationVal(out[2])
                    inner == SubSeq(val, 5, Len(val) - 1)
                IN  /\ AnnotationFrame(out[2], val)
                    /\ Len(out) = 2 + (IF IsSome(item.help)
                                       THEN Len(split(Unwrap(item.help), "\n"))
                                       ELSE 0)
                    /\ st.state = "set" =>
                          /\ Len(val) >= 5
                          /\ SubSeq(val, 1, 4) = <<" ", "=", " ", "\"">>
                          /\ val[Len(val)] = "\""
                          /\ IsEscaped(inner)
                          /\ Unescape(inner) = st.value
                          /\ (\A k \in 1..Len(st.value) :
                                st.value[k] \notin {"\"", "\\", "\n"})
                                => inner = st.value
                    /\ st.state = "unset" => val = NotPresentText
                    /\ st.state = "notunicode" => val = NotUnicodeText
           ELSE NoAnnotation

C3_Witness ==
    /\ status = "ok"
    /\ alternate
    /\ Annotated
    /\ IsSome(width)
    /\ IsSome(item.help)
    /\ env[Unwrap(item.env)].state = "set"
    /\ env[Unwrap(item.env)].value = <<"a", "\"">>
    /\ Len(out) >= 2
    /\ HasChar(out[2], "\\")

\* C4: is_positional() is true if and only if the item is a Positional
\* with non-empty help text; false for a Positional whose help is absent or
\* the empty string and for every other variant.
C4_PositionalNonEmptyHelp ==
    Returned("is_positional") =>
        (ret["is_positional"] <=>
            (/\ item.tag = "Positional"
             /\ IsSome(item.help)
             /\ Unwrap(item.help) # <<>>))

\* C5 as stated: items of different kind() are ordered as ItemKind orders
\* their kinds.
C5_OrderFollowsItemKind ==
    (Returned("cmp") /\ Returned("kinds") /\ ret["kinds"] # "Equal") =>
        (ret["cmp"] = "Less" <=> ret["kinds"] = "Less")

\* position of the variant in the declaration of Item
DeclarationRank(i) ==
    CASE i.tag = "Decor" -> 0
      [] i.tag = "Positional" -> 1
      [] i.tag = "Command" -> 2
      [] i.tag = "Flag" -> 3
      [] i.tag = "Argument" -> 4

Reversed(o) ==
    CASE o = "Less" -> "Greater"
      [] o = "Equal" -> "Equal"
      [] o = "Greater" -> "Less"

\* C5 (amended): the comparison on Item is a total order (total,
\* antisymmetric, transitive, equal exactly on equal items) that compares
\* by variant first, in the order Decor < Positional < Command < Flag <
\* Argument, whatever the fields, and by fields within a variant; it is not
\* the order of ItemKind (a Decor is below every Flag), and Flag and
\* Argument items, which share a kind, are never equal.
C5_TotalOrderByVariant ==
    Returned("cmp") =>
        /\ ret["cmp"] \in {"Less", "Equal", "Greater"}
        /\ ret["cmp"] = "Equal" <=> item = item2
        /\ Item_cmp(item2, item) = Reversed(ret["cmp"])
        /\ \A c \in OrdItems :
              (ret["cmp"] # "Greater" /\ Item_cmp(item2, c) # "Greater")
                  => Item_cmp(item, c) # "Greater"
        /\ item.tag # item2.tag =>
              (ret["cmp"] = "Less"
                  <=> DeclarationRank(item) < DeclarationRank(item2))

C5_Witness ==
    /\ Returned("cmp")
    /\ Returned("kinds")
    /\ item.tag = "Decor"
    /\ item2.tag = "Flag"
    /\ ret["cmp"] = "Less"
    /\ ret["kinds"] = "Greater"

\* the single name of the compact form
OneName(n) ==
    IF n.tag \in {"Short", "ShortLong"}
    THEN <<"-", n.short>>
    ELSE <<"-", "-">> \o n.long

\* C6: compact rendering always succeeds and is a single-line fragment
\* fixed by the variant and its naming fields alone: Decor empty,
\* Positional <metavar>, Command the literal COMMAND ..., Flag one name (-c
\* when a short name exists, else --long), Argument that name, a space and
\* the metavar; help, bound environment name, environment contents and
\* width play no part.
C6_CompactForm ==
    (Rendered /\ ~alternate) =>
        /\ status = "ok"
        /\ ~HasChar(Flat(out), "\n")
        /\ Flat(out) =
              CASE item.tag = "Decor" -> <<>>
                [] item.tag = "Positional" ->
                      <<"<">> \o item.metavar \o <<">">>
                [] item.tag = "Command" ->
                      <<"C", "O", "M", "M", "A", "N", "D", " ", ".", ".", ".">>
                [] item.tag = "Flag" -> OneName(item.name)
                [] item.tag = "Argument" ->
                      OneName(item.name) \o <<" ">> \o item.metavar

C6_Witness ==
    /\ status = "ok"
    /\ ~alternate
    /\ item.tag = "Argument"
    /\ item.name.tag = "ShortLong"
    /\ IsSome(item.env)
    /\ item.help = Some(<<"a", "\n", "b">>)
    /\ width = None
    /\ env[Unwrap(item.env)].state = "set"
    /\ Flat(out) = <<"-", item.name.short, " ">> \o item.metavar

\* C7: ShortLong::from selects the first short and the first long alias:
\* only shorts gives Short(short[0]), only longs Long(long[0]), both
\* ShortLong(short[0], long[0]), whatever the later aliases; with both
\* lists empty it panics and returns no value.
C7_FromFirstAliases ==
    Rendered =>
        IF named.short = <<>> /\ named.long = <<>>
        THEN status = "panic" /\ ~Returned("from")
        ELSE /\ status = "ok"
             /\ Returned("from")
             /\ ret["from"] =
                   IF named.long = <<>>
                   THEN [tag |-> "Short", short |-> Head(named.short)]
                   ELSE IF named.short = <<>>
                   THEN [tag |-> "Long", long |-> Head(named.long)]
                   ELSE [tag |-> "ShortLong", short |-> Head(named.short),
                         long |-> Head(named.long)]

C7_Witness ==
    /\ status = "ok"
    /\ Returned("from")
    /\ Len(named.short) >= 2
    /\ Len(named.long) >= 2
    /\ named.short[2] # named.short[1]
    /\ named.long[2] # named.long[1]
    /\ ret["from"] = [tag |-> "ShortLong", short |-> named.short[1],
                      long |-> named.long[1]]

\* the documented width of a name
NameWidth(n) == IF n.tag = "Short" THEN 2 ELSE 6 + Len(n.long)

\* C8: full_width() is Decor 0, Flag the name's width, Argument the name's
\* width + length(metavar) + 3, Positional length(metavar) + 2, Command
\* length(name) + 3 with a short alias and length(name) without, where a
\* name's width is 2 for Short and 6 + length(long) for Long and ShortLong;
\* help text and bound environment name play no part.
C8_FullWidthTable ==
    Returned("full_width") =>
        ret["full_width"] =
            CASE item.tag = "Decor" -> 0
              [] item.tag = "Flag" -> NameWidth(item.name)
              [] item.tag = "Argument" ->
                    NameWidth(item.name) + Len(item.metavar) + 3
              [] item.tag = "Positional" -> Len(item.metavar) + 2
              [] item.tag = "Command" ->
                    IF item.short = None
                    THEN Len(item.name)
                    ELSE Len(item.name) + 3

C8_Witness ==
    /\ Returned("full_width")
    /\ item.tag = "Argument"
    /\ item.name.tag = "ShortLong"
    /\ IsSome(item.env)
    /\ IsSome(item.help)
    /\ ret["full_width"] = 6 + Len(item.name.long) + Len(item.metavar) + 3

\* C9: is_command() holds exactly for Command, is_flag() exactly for Flag,
\* Argument and Decor; at most one of is_command(), is_flag(),
\* is_positional() holds, and none holds only for a Positional without
\* help.
C9_PredicatesPartition ==
    /\ Returned("is_command") =>
          (ret["is_command"] <=> item.tag = "Command")
    /\ Returned("is_flag") =>
          (ret["is_flag"] <=> item.tag \in {"Flag", "Argument", "Decor"})
    /\ (Returned("is_command") /\ Returned("is_flag")
            /\ Returned("is_positional")) =>
          /\ Cardinality({op \in {"is_command", "is_flag", "is_positional"} :
                              ret[op]}) <= 1
          /\ (~ret["is_command"] /\ ~ret["is_flag"] /\ ~ret["is_positional"])
                <=> (item.tag = "Positional" /\ item.help = None)

C9_Witness ==
    /\ Returned("is_command")
    /\ Returned("is_flag")
    /\ Returned("is_positional")
    /\ item.tag = "Positional"
    /\ item.help = None
    /\ ~ret["is_command"]
    /\ ~ret["is_flag"]
    /\ ~ret["is_positional"]

\* C10: the name segment written first in expanded mode is four spaces
\* followed by full_width() characters of name and metavar text, for every
\* item except a Decor without help, which writes nothing.
C10_NameSegmentWidth ==
    (Rendered /\ alternate) =>
        IF item.tag = "Decor" /\ item.help = None
        THEN out = <<>>
        ELSE /\ Len(out) >= 1
             /\ Len(out[1]) = 4 + Item_full_width(item)
             /\ SubSeq(out[1], 1, 4) = Spaces(4)
             /\ ~HasChar(out[1], "[")
             /\ ~HasChar(out[1], "\n")

C10_Witness ==
    /\ status = "ok"
    /\ alternate
    /\ item.tag = "Argument"
    /\ item.name.tag = "Long"
    /\ Len(out) >= 1
    /\ Len(out[1]) = 4 + 6 + Len(item.name.long) + 3 + Len(item.metavar)

====
